---- MODULE Spec2Model ----
(***************************************************************************)
(* Model of MAAPlugin (src/main.py): the binding registry, the per-device  *)
(* task queues and executed sets, the two HTTP handlers polled by the      *)
(* device, the notification relay with its temporary image files, and the  *)
(* persistence of the binding record.                                      *)
(*                                                                         *)
(* Python dicts are functions whose DOMAIN is the set of keys; lists are   *)
(* sequences.  uuid.uuid4() is a fresh token: the next entry of an id      *)
(* table that no request could have named before it was generated.         *)
(***************************************************************************)
EXTENDS Integers, Sequences, FiniteSets, TLC

\* ---------------------------------------------------------------- bounds
MaxTasks == 2       \* task ids uuid4 may hand out in one run
MaxFiles == 1       \* temporary screenshot files created in one run
MaxTime  == 1       \* largest value time.time() returns
MaxNames == 2       \* items in the comma separated list of /maa start

\* ------------------------------------------------------------ universes
Operators == {"U1", "U2"}
Devices   == {"D1", "D2"}
IdTable   == <<"t1", "t2", "t3", "t4", "t5", "t6", "t7", "t8">>
ForeignId == "zz"   \* a task id a device reports that was never generated
RawNames  == {"Combat", "nope", ""}

VARIABLES
    auto_screenshot,   \* self.auto_screenshot
    bindings,          \* self.bindings        {sender_id: {...}}
    device_to_sender,  \* self.device_to_sender {device_id: sender_id}
    task_queues,       \* self.task_queues     {device_id: [task, ...]}
    executed_tasks,    \* self.executed_tasks  {device_id: set()}
    device_last_seen,  \* self.device_last_seen {device_id: timestamp}
    disk,              \* data/astrbot_plugin_maa/bindings.json
    uuid_next,         \* index of the next task id uuid4 returns
    temp_files,        \* data/astrbot_plugin_maa/temp: {file: "complete" or
                       \*   "partial" (the write raised part way)}
    file_next,         \* index of the next temporary file name
    deleters,          \* pending _delete_temp_file tasks (by file)
    inflight,          \* the reportStatus handler suspended in send_message
    reply,             \* the response the step just taken gave: the HTTP
                       \*   response, or the result of /maa bind or unbind
    hist_pending,      \* history: ids enqueued under the device's current
                       \*   binding and not yet carried by a reportStatus
    hist_unbinder      \* history: the operator who last unbound the device

vars == <<auto_screenshot, bindings, device_to_sender, task_queues,
          executed_tasks, device_last_seen, disk, uuid_next, temp_files,
          file_next, deleters, inflight, reply, hist_pending, hist_unbinder>>

hist == <<hist_pending, hist_unbinder>>

mem == <<bindings, device_to_sender, task_queues, executed_tasks>>

\* ------------------------------------------------------- dict helpers
EmptyDict == <<>>

Put(f, k, v) == [x \in (DOMAIN f) \cup {k} |-> IF x = k THEN v ELSE f[x]]

Del(f, k) == [x \in (DOMAIN f) \ {k} |-> f[x]]

Get(f, k, default) == IF k \in DOMAIN f THEN f[k] ELSE default

\* ------------------------------------------------------- outputs
NoReply == [op |-> "none", who |-> "", dev |-> "", status |-> "", tasks |-> <<>>]

Reply(op, who, dev, status, tasks) ==
    [op |-> op, who |-> who, dev |-> dev, status |-> status, tasks |-> tasks]

\* the suspended handler: pc names the send_message it awaits, which was
\* called with a message of that kind for umo ("send_text": the status
\* text, "send_image": text and image file, "send_fallback": the text
\* annotated with the failure); cause is why the fallback is sent
Idle == [pc |-> "idle", dev |-> "", umo |-> <<>>, file |-> 0, cause |-> ""]

Awaiting(pc, dev, umo, file, cause) ==
    [pc |-> pc, dev |-> dev, umo |-> umo, file |-> file, cause |-> cause]

UmoOf(sender_id) == <<"umo", sender_id>>


\* ------------------------------------------------------- persistence
NoFile == [kind |-> "absent", data |-> EmptyDict]

\* _save_data: open(bindings_file, "w") then json.dump; any exception is
\* logged and swallowed.  outcome is what the file system does:
\*   "ok"           the whole binding set is written
\*   "open_failed"  open raises, the file is left as it was
\*   "write_failed" open truncated the file and the dump raised part way
SaveOutcomes == {"ok", "open_failed", "write_failed"}

_save_data(old, b, outcome) ==
    CASE outcome = "ok"           -> [kind |-> "ok", data |-> b]
      [] outcome = "open_failed"  -> old
      [] outcome = "write_failed" -> [kind |-> "partial", data |-> EmptyDict]

\* the loop of _load_data that rebuilds the reverse index
RebuildIndex(b) ==
    [d \in {b[s].device_id : s \in DOMAIN b} |->
        CHOOSE s \in DOMAIN b : b[s].device_id = d]

\* _load_data: bindings read from the file when it exists and parses;
\* a missing or unparsable file leaves the empty dict of __init__
LoadBindings(d) == IF d.kind = "ok" THEN d.data ELSE EmptyDict

\* ------------------------------------------------------- initial state
Init ==
    /\ auto_screenshot \in BOOLEAN
    /\ disk = NoFile
    /\ bindings = LoadBindings(disk)
    /\ device_to_sender = RebuildIndex(bindings)
    /\ task_queues = EmptyDict
    /\ executed_tasks = EmptyDict
    /\ device_last_seen = EmptyDict
    /\ uuid_next = 1
    /\ temp_files = EmptyDict
    /\ file_next = 1
    /\ deleters = {}
    /\ inflight = Idle
    /\ reply = NoReply
    /\ hist_pending = [d \in Devices |-> {}]
    /\ hist_unbinder = [d \in Devices |-> ""]

\* ------------------------------------------------------- /maa bind
\* "if sender_id in self.bindings"
SenderBound(b, sender_id) == sender_id \in DOMAIN b

DeviceClaimed_skipped(d2s, device_id) == FALSE

\* "if device_id in self.device_to_sender"
DeviceClaimed(d2s, device_id) == device_id \in DOMAIN d2s

BindConflict_device_unchecked(b, d2s, sender_id, device_id) ==
    IF SenderBound(b, sender_id) THEN "already_bound" ELSE ""

\* the two checks of maa_bind, in their order; "" when neither rejects
BindConflict(b, d2s, sender_id, device_id) ==
    IF SenderBound(b, sender_id) THEN "already_bound"
    ELSE IF DeviceClaimed(d2s, device_id) THEN "device_taken"
    ELSE ""

NewBinding(sender_id, device_id) ==
    [device_id |-> device_id, user_id |-> sender_id, umo |-> UmoOf(sender_id)]

maa_bind(sender_id, device_id, outcome) ==
    /\ UNCHANGED <<auto_screenshot, task_queues, executed_tasks,
                   device_last_seen, uuid_next, temp_files, file_next,
                   deleters, inflight>>
    /\ IF BindConflict(bindings, device_to_sender, sender_id, device_id) # ""
       THEN /\ reply' = Reply("bind", sender_id, device_id,
                   BindConflict(bindings, device_to_sender, sender_id, device_id), <<>>)
            /\ UNCHANGED <<bindings, device_to_sender, disk, hist>>
       ELSE /\ bindings' = Put(bindings, sender_id, NewBinding(sender_id, device_id))
            /\ device_to_sender' = Put(device_to_sender, device_id, sender_id)
            /\ disk' = _save_data(disk, bindings', outcome)
            /\ reply' = Reply("bind", sender_id, device_id, "ok", <<>>)
            /\ UNCHANGED hist

\* ------------------------------------------------------- /maa unbind
maa_unbind(sender_id, outcome) ==
    /\ UNCHANGED <<auto_screenshot, device_last_seen, uuid_next, temp_files,
                   file_next, deleters, inflight>>
    /\ IF ~SenderBound(bindings, sender_id)
       THEN /\ reply' = Reply("unbind", sender_id, "", "not_bound", <<>>)
            /\ UNCHANGED <<bindings, device_to_sender, task_queues,
                           executed_tasks, disk, hist>>
       ELSE LET old_device == bindings[sender_id].device_id IN
            /\ device_to_sender' = Del(device_to_sender, old_device)
            /\ bindings' = Del(bindings, sender_id)
            /\ task_queues' = Del(task_queues, old_device)
            /\ executed_tasks' = Del(executed_tasks, old_device)
            /\ disk' = _save_data(disk, bindings', outcome)
            /\ reply' = Reply("unbind", sender_id, old_device, "ok", <<>>)
            /\ hist_pending' = [hist_pending EXCEPT ![old_device] = {}]
            /\ hist_unbinder' = [hist_unbinder EXCEPT ![old_device] = sender_id]

\* ------------------------------------------------------- task queue
ExemptTypes == {"CaptureImage", "CaptureImageNow", "HeartBeat"}

Task(id, type) == [id |-> id, type |-> type]

Ids(q) == {q[i].id : i \in 1..Len(q)}

_add_task_always_captures(q, task_type, n, auto) ==
    LET q1 == Append(q, Task(IdTable[n], task_type)) IN
    IF auto
    THEN [queue |-> Append(q1, Task(IdTable[n + 1], "CaptureImage")), next |-> n + 2]
    ELSE [queue |-> q1, next |-> n + 1]

\* _add_task on the device's queue q (the empty list when the device has
\* none); n is the index of the id the next uuid4 call returns
_add_task(q, task_type, n, auto) ==
    LET q1 == Append(q, Task(IdTable[n], task_type)) IN
    IF auto /\ task_type \notin ExemptTypes
    THEN [queue |-> Append(q1, Task(IdTable[n + 1], "CaptureImage")), next |-> n + 2]
    ELSE [queue |-> q1, next |-> n + 1]

InsertHead_appends(q, task) == Append(q, task)

\* list.insert(0, task) of the stop, screenshot and heartbeat commands
InsertHead(q, task) == <<task>> \o q

PendingTasks_inverted(q, executed) == SelectSeq(q, LAMBDA t : t.id \in executed)

\* the filter of _handle_get_task
PendingTasks(q, executed) == SelectSeq(q, LAMBDA t : t.id \notin executed)

RemoveTask_drops_queue(q, task_id) == <<>>

RemoveTask_keeps_entry(q, task_id) == q

RemoveTask_head_only(q, task_id) ==
    IF q # <<>> /\ Head(q).id = task_id THEN Tail(q) ELSE q

\* the filter of _handle_report_status
RemoveTask(q, task_id) == SelectSeq(q, LAMBDA t : t.id # task_id)

\* the bookkeeping of _handle_report_status for one (device, task): the id
\* joins the executed set of the device, created when missing, and the
\* queue of the device, when it has one, is filtered
Acknowledge(queues, executed, device_id, task_id) ==
    [executed |-> Put(executed, device_id,
                      Get(executed, device_id, {}) \cup {task_id}),
     queues   |-> IF device_id \in DOMAIN queues
                  THEN [queues EXCEPT ![device_id] = RemoveTask(@, task_id)]
                  ELSE queues]

\* ------------------------------------------------------- /maa status
\* the presence line of maa_status: "last_seen > 0", "elapsed < 10",
\* "elapsed < 60"
PresenceOf(last_seen, now) ==
    IF last_seen > 0
    THEN LET elapsed == now - last_seen IN
         IF elapsed < 10 THEN "online"
         ELSE IF elapsed < 60 THEN "active" ELSE "offline"
    ELSE "never_connected"

\* "pending = len(self.task_queues.get(device_id, []))"
StatusPending(queues, device_id) == Len(Get(queues, device_id, <<>>))

\* maa_status reads and answers; the answer carries the presence line and
\* the pending count
maa_status(sender_id, now) ==
    /\ UNCHANGED <<auto_screenshot, bindings, device_to_sender, task_queues,
                   executed_tasks, device_last_seen, disk, uuid_next,
                   temp_files, file_next, deleters, inflight, hist>>
    /\ IF ~SenderBound(bindings, sender_id)
       THEN reply' = [op |-> "status", who |-> sender_id, dev |-> "",
                      status |-> "not_bound", tasks |-> <<>>, pending |-> 0]
       ELSE LET device_id == bindings[sender_id].device_id IN
            reply' = [op |-> "status", who |-> sender_id, dev |-> device_id,
                      status |-> PresenceOf(Get(device_last_seen, device_id, 0), now),
                      tasks |-> <<>>,
                      pending |-> StatusPending(task_queues, device_id)]

\* ------------------------------------------------------- /maa start
\* the part of TASK_ALIASES the inputs reach
TASK_ALIASES == [n \in {"combat", "all"} |->
                    IF n = "combat" THEN "LinkStart-Combat" ELSE "LinkStart"]

\* str.lower on the names of RawNames
Lower(name) == IF name = "Combat" THEN "combat" ELSE name

\* [t.strip() for t in tasks.split(",") if t.strip()]
TaskNames(raw) == SelectSeq(raw, LAMBDA t : t # "")

\* TASK_ALIASES.get(name.lower()) or TASK_ALIASES.get(name); "" when unknown
AliasOf(name) ==
    IF Lower(name) \in DOMAIN TASK_ALIASES THEN TASK_ALIASES[Lower(name)]
    ELSE IF name \in DOMAIN TASK_ALIASES THEN TASK_ALIASES[name]
    ELSE ""

\* the loop "for name, task_type in task_types: self._add_task(...)"
RECURSIVE AddAll(_, _, _, _)
AddAll(q, types, n, auto) ==
    IF types = <<>> THEN [queue |-> q, next |-> n]
    ELSE LET r == _add_task(q, Head(types), n, auto)
         IN AddAll(r.queue, Tail(types), r.next, auto)

\* the uuid4 calls that loop makes
IdsNeeded(types, auto) ==
    Len(types) + Cardinality({i \in 1..Len(types) : auto /\ types[i] \notin ExemptTypes})

RawLists == UNION {[1..k -> RawNames] : k \in 1..MaxNames}

maa_start(sender_id, raw) ==
    /\ reply' = NoReply
    /\ UNCHANGED <<auto_screenshot, bindings, device_to_sender, executed_tasks,
                   device_last_seen, disk, temp_files, file_next, deleters,
                   inflight, hist_unbinder>>
    /\ IF ~SenderBound(bindings, sender_id)
       THEN UNCHANGED <<task_queues, uuid_next, hist_pending>>
       ELSE LET device_id == bindings[sender_id].device_id
                task_names == TaskNames(raw)
                task_types == [i \in 1..Len(task_names) |-> AliasOf(task_names[i])]
            IN
            IF task_names = <<>>
            THEN UNCHANGED <<task_queues, uuid_next, hist_pending>>
            ELSE IF \E i \in 1..Len(task_types) : task_types[i] = ""
            THEN UNCHANGED <<task_queues, uuid_next, hist_pending>>
            ELSE /\ uuid_next + IdsNeeded(task_types, auto_screenshot) - 1 <= MaxTasks
                 /\ LET r == AddAll(Get(task_queues, device_id, <<>>), task_types,
                                    uuid_next, auto_screenshot)
                    IN /\ task_queues' = Put(task_queues, device_id, r.queue)
                       /\ uuid_next' = r.next
                       /\ hist_pending' = [hist_pending EXCEPT ![device_id] =
                              @ \cup {IdTable[i] : i \in uuid_next..(r.next - 1)}]

\* ------------------------------------- /maa screenshot, stop, heartbeat
\* the three handlers differ in the task type only
HeadCommand(sender_id, task_type) ==
    /\ reply' = NoReply
    /\ UNCHANGED <<auto_screenshot, bindings, device_to_sender, executed_tasks,
                   device_last_seen, disk, temp_files, file_next, deleters,
                   inflight, hist_unbinder>>
    /\ IF ~SenderBound(bindings, sender_id)
       THEN UNCHANGED <<task_queues, uuid_next, hist_pending>>
       ELSE LET device_id == bindings[sender_id].device_id
                task == Task(IdTable[uuid_next], task_type)
            IN /\ uuid_next <= MaxTasks
               /\ task_queues' = Put(task_queues, device_id,
                      InsertHead(Get(task_queues, device_id, <<>>), task))
               /\ uuid_next' = uuid_next + 1
               /\ hist_pending' = [hist_pending EXCEPT ![device_id] = @ \cup {task.id}]

maa_screenshot(sender_id) == HeadCommand(sender_id, "CaptureImageNow")

maa_stop(sender_id) == HeadCommand(sender_id, "StopTask")

maa_heartbeat(sender_id) == HeadCommand(sender_id, "HeartBeat")

\* ------------------------------------------------------- POST /maa/getTask
\* a request body: unparsable, or a JSON object whose "device" is device
\* the task list _handle_get_task answers for device_id in this state
GetTaskResult(device_id) ==
    IF DeviceClaimed(device_to_sender, device_id)
    THEN PendingTasks(Get(task_queues, device_id, <<>>),
                      Get(executed_tasks, device_id, {}))
    ELSE <<>>

GetTaskRequests == {[parsable |-> FALSE, device |-> ""]}
                   \cup [parsable : {TRUE}, device : Devices \cup {""}]

\* time.time(): a value not below any timestamp already recorded
Clock == {t \in 1..MaxTime : \A d \in DOMAIN device_last_seen : device_last_seen[d] <= t}

RecordLastSeen_forgets_others(last_seen, device_id, now) ==
    Put(EmptyDict, device_id, now)

\* "self.device_last_seen[device_id] = time.time()"
RecordLastSeen(last_seen, device_id, now) == Put(last_seen, device_id, now)

\* request.json() raised, or "if not device_id"
GetTaskMalformed(req) == ~req.parsable \/ req.device = ""

_handle_get_task(req, now) ==
    /\ UNCHANGED <<auto_screenshot, bindings, device_to_sender, task_queues,
                   executed_tasks, disk, uuid_next, temp_files, file_next,
                   deleters, inflight, hist>>
    /\ IF GetTaskMalformed(req)
       THEN /\ reply' = Reply("getTask", "", req.device, "400", <<>>)
            /\ UNCHANGED device_last_seen
       ELSE /\ device_last_seen' = RecordLastSeen(device_last_seen, req.device, now)
            /\ reply' = Reply("getTask", "", req.device, "200", GetTaskResult(req.device))

\* ------------------------------------------------- POST /maa/reportStatus
ImageThreshold == 100

\* a payload is known by its length and by whether it is valid Base64
Payloads == {[len |-> 0, valid |-> FALSE],
             [len |-> ImageThreshold, valid |-> TRUE],
             [len |-> ImageThreshold + 1, valid |-> TRUE],
             [len |-> ImageThreshold + 1, valid |-> FALSE]}

NoPayload == [len |-> 0, valid |-> FALSE]

\* a request body: unparsable, or a JSON object with these fields; the
\* task is an id handed out so far, an id never handed out, or missing
ReportRequests ==
    {[parsable |-> FALSE, device |-> "", task |-> "", payload |-> NoPayload]}
    \cup [parsable : {TRUE}, device : Devices \cup {""},
          task : {IdTable[i] : i \in 1..(uuid_next - 1)} \cup {ForeignId, ""},
          payload : Payloads]

\* "if payload and len(payload) > 100"
IsScreenshot(payload) == payload.len # 0 /\ payload.len > ImageThreshold

\* _send_screenshot up to its send_message: b64decode raises on an invalid
\* payload; open/write of the temporary file end as wr says.  The result
\* tells whether a file now exists and why the coroutine raised ("" if not)
_send_screenshot(payload, wr) ==
    IF ~payload.valid THEN [created |-> FALSE, raised |-> "decode"]
    ELSE CASE wr = "ok"           -> [created |-> TRUE,  raised |-> ""]
           [] wr = "open_failed"  -> [created |-> FALSE, raised |-> "write"]
           [] wr = "write_failed" -> [created |-> TRUE,  raised |-> "write"]

ReportMalformed_task_unchecked(req) == ~req.parsable \/ req.device = ""

\* request.json() raised, or "if not device_id or not task_id"
ReportMalformed(req) == ~req.parsable \/ req.device = "" \/ req.task = ""

NoTarget == <<>>

NotifyTarget_none(b, d2s, device_id) == NoTarget

NotifyTarget_unchecked(b, d2s, device_id) == UmoOf(Get(d2s, device_id, ""))

\* "sender_id = self.device_to_sender.get(device_id)", "if sender_id and
\* sender_id in self.bindings", "if umo := binding.get("umo")": the channel
\* the result is sent to, NoTarget when nothing is sent
NotifyTarget(b, d2s, device_id) ==
    IF DeviceClaimed(d2s, device_id) /\ SenderBound(b, d2s[device_id])
    THEN b[d2s[device_id]].umo
    ELSE NoTarget

\* the handler from the parsed request to its first await of send_message
\* (or to its response when nothing is sent); nothing before that await
\* suspends, so the acknowledgment and the lookup are one step.  At most
\* one handler is suspended in a send at a time
_handle_report_status(req, wr) ==
    /\ UNCHANGED <<auto_screenshot, bindings, device_to_sender,
                   device_last_seen, disk, uuid_next, deleters, hist_unbinder>>
    /\ IF ReportMalformed(req)
       THEN /\ reply' = Reply("reportStatus", "", req.device, "400", <<>>)
            /\ UNCHANGED <<task_queues, executed_tasks, temp_files, file_next,
                           inflight, hist_pending>>
       ELSE LET device_id == req.device
                task_id == req.task
            IN
            /\ executed_tasks' =
                   Acknowledge(task_queues, executed_tasks, device_id, task_id).executed
            /\ task_queues' =
                   Acknowledge(task_queues, executed_tasks, device_id, task_id).queues
            /\ hist_pending' = [hist_pending EXCEPT ![device_id] = @ \ {task_id}]
            /\ IF NotifyTarget(bindings, device_to_sender, device_id) # NoTarget
               THEN LET umo == NotifyTarget(bindings, device_to_sender, device_id) IN
                    /\ inflight.pc = "idle"
                    /\ reply' = NoReply
                    /\ IF IsScreenshot(req.payload)
                       THEN LET r == _send_screenshot(req.payload, wr) IN
                            /\ r.created => file_next <= MaxFiles
                            /\ temp_files' = IF r.created
                                  THEN Put(temp_files, file_next,
                                           IF r.raised = "" THEN "complete" ELSE "partial")
                                  ELSE temp_files
                            /\ file_next' = IF r.created THEN file_next + 1 ELSE file_next
                            /\ inflight' = IF r.raised = ""
                                  THEN Awaiting("send_image", device_id, umo, file_next, "")
                                  ELSE Awaiting("send_fallback", device_id, umo, 0, r.raised)
                       ELSE /\ inflight' = Awaiting("send_text", device_id, umo, 0, "")
                            /\ UNCHANGED <<temp_files, file_next>>
               ELSE /\ reply' = Reply("reportStatus", "", device_id, "200", <<>>)
                    /\ UNCHANGED <<temp_files, file_next, inflight>>

\* the awaited context.send_message returns (ok) or raises (~ok), and the
\* handler runs on to its next await or to its response; an exception that
\* leaves the handler is answered by the server with status 500
SendReturns(ok) ==
    /\ inflight.pc # "idle"
    /\ UNCHANGED <<auto_screenshot, bindings, device_to_sender, task_queues,
                   executed_tasks, device_last_seen, disk, uuid_next,
                   temp_files, file_next, hist>>
    /\ IF inflight.pc = "send_image"
       THEN IF ok
            THEN /\ deleters' = deleters \cup {inflight.file}
                 /\ inflight' = Idle
                 /\ reply' = Reply("reportStatus", "", inflight.dev, "200", <<>>)
            ELSE /\ inflight' = Awaiting("send_fallback", inflight.dev,
                                         inflight.umo, 0, "send")
                 /\ reply' = NoReply
                 /\ UNCHANGED deleters
       ELSE /\ inflight' = Idle
            /\ reply' = Reply("reportStatus", "", inflight.dev,
                              IF ok THEN "200" ELSE "500", <<>>)
            /\ UNCHANGED deleters

\* _delete_temp_file after its sleep: unlink when the file exists; an
\* exception of unlink is logged and the file stays
_delete_temp_file(file_path, ok) ==
    /\ file_path \in deleters
    /\ deleters' = deleters \ {file_path}
    /\ temp_files' = IF file_path \in DOMAIN temp_files /\ ok
                     THEN Del(temp_files, file_path) ELSE temp_files
    /\ reply' = NoReply
    /\ UNCHANGED <<auto_screenshot, bindings, device_to_sender, task_queues,
                   executed_tasks, device_last_seen, disk, uuid_next,
                   file_next, inflight, hist>>

\* ------------------------------------------------------- process restart
\* the process stops and __init__ runs again: every dict is empty, the
\* bindings come from the file, handlers and deferred deletions are gone
Restart ==
    /\ bindings' = LoadBindings(disk)
    /\ device_to_sender' = RebuildIndex(bindings')
    /\ task_queues' = EmptyDict
    /\ executed_tasks' = EmptyDict
    /\ device_last_seen' = EmptyDict
    /\ deleters' = {}
    /\ inflight' = Idle
    /\ reply' = NoReply
    /\ hist_pending' = [d \in Devices |-> {}]
    /\ UNCHANGED <<auto_screenshot, disk, uuid_next, temp_files, file_next,
                   hist_unbinder>>

\* ------------------------------------------- crash inside _save_data
\* where the process dies in "with open(..., 'w') as f: json.dump(...)":
\*   "before_open"  the file is as it was
\*   "after_open"   open truncated the file, the dump is not complete
\*   "after_dump"   the whole binding set is written
CrashPoints == {"before_open", "after_open", "after_dump"}

_save_data_crash(old, b, point) ==
    CASE point = "before_open" -> old
      [] point = "after_open"  -> [kind |-> "partial", data |-> EmptyDict]
      [] point = "after_dump"  -> [kind |-> "ok", data |-> b]

\* the process dies at point of the _save_data call that was to write the
\* binding set b, and starts again: __init__ and _load_data
CrashInSave(b, point) ==
    /\ disk' = _save_data_crash(disk, b, point)
    /\ bindings' = LoadBindings(disk')
    /\ device_to_sender' = RebuildIndex(bindings')
    /\ task_queues' = EmptyDict
    /\ executed_tasks' = EmptyDict
    /\ device_last_seen' = EmptyDict
    /\ deleters' = {}
    /\ inflight' = Idle
    /\ reply' = NoReply
    /\ hist_pending' = [d \in Devices |-> {}]
    /\ UNCHANGED <<auto_screenshot, uuid_next, temp_files, file_next,
                   hist_unbinder>>

\* maa_bind up to its _save_data call, where the process dies
CrashInBind(sender_id, device_id, point) ==
    /\ BindConflict(bindings, device_to_sender, sender_id, device_id) = ""
    /\ CrashInSave(Put(bindings, sender_id, NewBinding(sender_id, device_id)), point)

\* maa_unbind up to its _save_data call, where the process dies
CrashInUnbind(sender_id, point) ==
    /\ SenderBound(bindings, sender_id)
    /\ CrashInSave(Del(bindings, sender_id), point)

\* ------------------------------------------------------- enqueue harness
TaskTypes == {"LinkStart-Combat", "StopTask"} \cup ExemptTypes

\* one call self._add_task(device_id, task_type) for the caller's device,
\* with any task type
AddTaskCall(sender_id, task_type) ==
    /\ SenderBound(bindings, sender_id)
    /\ LET device_id == bindings[sender_id].device_id
           r == _add_task(Get(task_queues, device_id, <<>>), task_type,
                          uuid_next, auto_screenshot)
       IN /\ r.next - 1 <= MaxTasks
          /\ task_queues' = Put(task_queues, device_id, r.queue)
          /\ uuid_next' = r.next
          /\ hist_pending' = [hist_pending EXCEPT ![device_id] =
                 @ \cup {IdTable[i] : i \in uuid_next..(r.next - 1)}]
    /\ reply' = NoReply
    /\ UNCHANGED <<auto_screenshot, bindings, device_to_sender, executed_tasks,
                   device_last_seen, disk, temp_files, file_next, deleters,
                   inflight, hist_unbinder>>

\* ------------------------------------------------------- specification
\* Every action draws the inputs of one handler.  The narrower forms of an
\* action restrict the inputs: the file system does not fail, one device
\* is in use, the requests are well formed, the report carries no image
\* and an id that was handed out, the channel send succeeds.
Bind == \E s \in Operators, d \in Devices, o \in SaveOutcomes : maa_bind(s, d, o)

BindD1 == \E s \in Operators : maa_bind(s, "D1", "ok")

Unbind == \E s \in Operators, o \in SaveOutcomes : maa_unbind(s, o)

UnbindSaved == \E s \in Operators : maa_unbind(s, "ok")

Start == \E s \in Operators, raw \in RawLists : maa_start(s, raw)

Screenshot == \E s \in Operators : maa_screenshot(s)

Stop == \E s \in Operators : maa_stop(s)

Heartbeat == \E s \in Operators : maa_heartbeat(s)

AddTask == \E s \in Operators, type \in TaskTypes : AddTaskCall(s, type)

GetTask == \E req \in GetTaskRequests, now \in Clock : _handle_get_task(req, now)

GetTaskD1 == \E now \in Clock :
                _handle_get_task([parsable |-> TRUE, device |-> "D1"], now)

ReportStatus == \E req \in ReportRequests, wr \in SaveOutcomes : _handle_report_status(req, wr)

ReportText == \E req \in ReportRequests :
                 /\ ~IsScreenshot(req.payload)
                 /\ _handle_report_status(req, "ok")

ReportD1 == \E req \in ReportRequests :
                  /\ req.parsable /\ req.device = "D1"
                  /\ req.task \notin {"", ForeignId}
                  /\ ~IsScreenshot(req.payload)
                  /\ _handle_report_status(req, "ok")

ReportForeign == \E req \in ReportRequests :
                    /\ req.task \in {ForeignId, ""}
                    /\ ~IsScreenshot(req.payload)
                    /\ _handle_report_status(req, "ok")

BindU1D1 == maa_bind("U1", "D1", "ok")

UnbindU1 == maa_unbind("U1", "ok")

StopU1 == maa_stop("U1")

BindSaved == \E s \in Operators, d \in Devices : maa_bind(s, d, "ok")

BindCrashes == \E s \in Operators, d \in Devices, point \in CrashPoints :
                  CrashInBind(s, d, point)

UnbindCrashes == \E s \in Operators, point \in CrashPoints : CrashInUnbind(s, point)

ReportIdD1 == \E req \in ReportRequests :
                 /\ req.parsable /\ req.device = "D1" /\ req.task # ""
                 /\ ~IsScreenshot(req.payload)
                 /\ _handle_report_status(req, "ok")

Status == \E s \in Operators, now \in Clock : maa_status(s, now)

SendDone == \E ok \in BOOLEAN : SendReturns(ok)

SendSucceeds == SendReturns(TRUE)

DeleteTempFile == \E f \in deleters, ok \in BOOLEAN : _delete_temp_file(f, ok)

\* the binding registry with its persistence, the devices polling and
\* reporting meanwhile, and the process restarting
NextRegistry ==
    \/ Bind
    \/ Unbind
    \/ GetTaskD1
    \/ ReportText
    \/ SendSucceeds
    \/ Restart

SpecRegistry == Init /\ [][NextRegistry]_vars

\* the task queue of one device that the operators bind in turn: every
\* operator command, the device polling and acknowledging
NextQueue ==
    \/ BindD1
    \/ UnbindSaved
    \/ Start
    \/ Screenshot
    \/ Stop
    \/ Heartbeat
    \/ GetTaskD1
    \/ ReportD1
    \/ SendSucceeds

SpecQueue == Init /\ [][NextQueue]_vars

\* _add_task called with every task type
NextAddTask ==
    \/ BindD1
    \/ UnbindSaved
    \/ AddTask
    \/ GetTaskD1
    \/ ReportD1
    \/ SendSucceeds

SpecAddTask == Init /\ [][NextAddTask]_vars

\* the notification relay: reports with and without images, the channel
\* and the file system failing or not, the deferred deletions
NextRelay ==
    \/ BindD1
    \/ UnbindSaved
    \/ ReportStatus
    \/ SendDone
    \/ DeleteTempFile

SpecRelay == Init /\ [][NextRelay]_vars

\* the HTTP protocol: every getTask request and the reportStatus requests
\* of a device that names no task of the queue, well formed or not, for
\* either device, while one operator binds, enqueues and unbinds
NextProtocol ==
    \/ BindU1D1
    \/ UnbindU1
    \/ StopU1
    \/ GetTask
    \/ ReportForeign
    \/ SendSucceeds

SpecProtocol == Init /\ [][NextProtocol]_vars

\* the acknowledgments of one device: the operators bind it in turn,
\* enqueue at the head and unbind while the device reports ids handed out
\* under any binding and ids never handed out, each as often as it likes
NextAck ==
    \/ BindD1
    \/ UnbindSaved
    \/ Stop
    \/ ReportIdD1
    \/ SendSucceeds

SpecAck == Init /\ [][NextAck]_vars

\* the binding record across crashes: every write of the record either
\* completes or is cut short by the death of the process, which then
\* starts again from the file
NextCrash ==
    \/ BindSaved
    \/ UnbindSaved
    \/ StopU1
    \/ GetTaskD1
    \/ ReportD1
    \/ SendSucceeds
    \/ BindCrashes
    \/ UnbindCrashes

SpecCrash == Init /\ [][NextCrash]_vars

\* what the operator and the device see of one queue: the operators bind
\* the device in turn, enqueue at the tail and at the head, ask for the
\* status and unbind, while the device polls and reports any id
NextStatus ==
    \/ BindD1
    \/ UnbindSaved
    \/ Start
    \/ Stop
    \/ Status
    \/ GetTaskD1
    \/ ReportIdD1
    \/ SendSucceeds

SpecStatus == Init /\ [][NextStatus]_vars

\* =================================================================
\* Properties
\* =================================================================

\* C1: the operator index and the device index are a bijection: every bound
\* operator's device maps back to that operator, every entry of
\* device_to_sender names an operator whose binding names that device, and
\* no device appears in two bindings (an operator is a key of bindings and
\* so appears once).
C1_Bijection ==
    /\ \A s \in DOMAIN bindings :
          /\ bindings[s].device_id \in DOMAIN device_to_sender
          /\ device_to_sender[bindings[s].device_id] = s
    /\ \A d \in DOMAIN device_to_sender :
          /\ device_to_sender[d] \in DOMAIN bindings
          /\ bindings[device_to_sender[d]].device_id = d
    /\ \A s1, s2 \in DOMAIN bindings :
          s1 # s2 => bindings[s1].device_id # bindings[s2].device_id

\* both operators are bound, and one of the devices has been unbound before
C1_Witness ==
    /\ DOMAIN bindings = Operators
    /\ \E d \in Devices : hist_unbinder[d] # ""

\* C2: a bind by an operator who already has a binding, or for a device
\* that is already claimed, is rejected, and the step leaves the bindings,
\* the inverse index, every queue, every executed set and the persisted
\* record as they were.
C2_RejectedBindChangesNothing ==
    [][(reply'.op = "bind"
        /\ (reply'.who \in DOMAIN bindings \/ reply'.dev \in DOMAIN device_to_sender))
       => (/\ reply'.status \in {"already_bound", "device_taken"}
           /\ UNCHANGED <<bindings, device_to_sender, task_queues,
                          executed_tasks, disk>>)]_vars

\* a bind was just rejected for a device another operator holds, while that
\* device has a queue and an executed set
C2_Witness ==
    /\ reply.op = "bind"
    /\ reply.status = "device_taken"
    /\ Len(Get(task_queues, reply.dev, <<>>)) > 0
    /\ Get(executed_tasks, reply.dev, {}) # {}

\* C3: at-least-once delivery.  Every getTask answer for a bound device
\* holds exactly the ids that were enqueued for it and that no reportStatus
\* has carried since (nor an unbind discarded); and an id that has been
\* handed out and is absent from what getTask would answer for a device is
\* never in a later answer for that device.
C3_AtLeastOnce ==
    /\ []((reply.op = "getTask" /\ DeviceClaimed(device_to_sender, reply.dev))
            => Ids(reply.tasks) = hist_pending[reply.dev])
    /\ [][\A d \in Devices : \A i \in 1..(uuid_next - 1) :
            IdTable[i] \notin Ids(GetTaskResult(d))
                => IdTable[i] \notin Ids(GetTaskResult(d)')]_vars

\* getTask has just answered a bound device with a pending task after
\* another task of that device was acknowledged
C3_Witness ==
    /\ reply.op = "getTask"
    /\ DeviceClaimed(device_to_sender, reply.dev)
    /\ reply.tasks # <<>>
    /\ Get(executed_tasks, reply.dev, {}) # {}
    /\ hist_pending[reply.dev] # {}

\* C4: one _add_task call appends to the device's queue the requested task
\* and, when the policy is on and the type is none of CaptureImage,
\* CaptureImageNow, HeartBeat, exactly one CaptureImage task with another
\* id right after it; otherwise it appends the requested task alone.
C4_AutoScreenshot ==
    [][\A d \in Devices :
         LET q  == Get(task_queues, d, <<>>)
             q2 == Get(task_queues', d, <<>>)
         IN (uuid_next' # uuid_next /\ q2 # q) =>
               /\ Len(q2) > Len(q)
               /\ SubSeq(q2, 1, Len(q)) = q
               /\ q2[Len(q) + 1].id = IdTable[uuid_next]
               /\ IF auto_screenshot /\ q2[Len(q) + 1].type \notin
                                          {"CaptureImage", "CaptureImageNow", "HeartBeat"}
                  THEN /\ Len(q2) = Len(q) + 2
                       /\ q2[Len(q) + 2].type = "CaptureImage"
                       /\ q2[Len(q) + 2].id # q2[Len(q) + 1].id
                  ELSE Len(q2) = Len(q) + 1]_vars

\* with the policy on, a StopTask was enqueued through _add_task and is
\* followed by the injected CaptureImage
C4_Witness ==
    /\ auto_screenshot
    /\ "D1" \in DOMAIN task_queues
    /\ Len(task_queues["D1"]) = 2
    /\ task_queues["D1"][1].type = "StopTask"
    /\ task_queues["D1"][2].type = "CaptureImage"

\* C5: when a stop, screenshot or heartbeat command inserts its task, the
\* next getTask answer for the device starts with that task and continues
\* with the previous answer, in its order.
C5_HeadPriority ==
    [][\A d \in Devices :
         (/\ uuid_next' = uuid_next + 1
          /\ \E i \in 1..Len(Get(task_queues', d, <<>>)) :
                /\ task_queues'[d][i].id = IdTable[uuid_next]
                /\ task_queues'[d][i].type \in {"StopTask", "CaptureImageNow", "HeartBeat"})
         => (/\ GetTaskResult(d)' # <<>>
             /\ Head(GetTaskResult(d)').id = IdTable[uuid_next]
             /\ Tail(GetTaskResult(d)') = GetTaskResult(d))]_vars

\* getTask has just answered [B, A], where A was started first (normal) and
\* B is the later head-priority task
C5_Witness ==
    /\ reply.op = "getTask"
    /\ Len(reply.tasks) = 2
    /\ reply.tasks[1].id = IdTable[2]
    /\ reply.tasks[1].type \in {"StopTask", "CaptureImageNow", "HeartBeat"}
    /\ reply.tasks[2].id = IdTable[1]
    /\ reply.tasks[2].type = "LinkStart-Combat"

\* C6 (as claimed): when an operator has just bound a device that another
\* operator unbound last, nothing of the time before the bind is left: the
\* executed set of the device is empty and getTask answers no task.
C6_RebindStartsClean ==
    (/\ reply.op = "bind"
     /\ reply.status = "ok"
     /\ hist_unbinder[reply.dev] \notin {"", reply.who})
        => (/\ Get(executed_tasks, reply.dev, {}) = {}
            /\ GetTaskResult(reply.dev) = <<>>)

\* C7 (as claimed): a reportStatus whose acknowledgment was recorded is
\* answered with success whatever the channel send does.
C7_SendNeverFailsReport ==
    (reply.op = "reportStatus" /\ reply.status # "400") => reply.status = "200"

\* C8 (as claimed): when _send_screenshot, having written its file, is left
\* (its send returned or raised), the deletion of that file is scheduled.
C8_DeletionAlwaysScheduled ==
    [][(inflight.pc = "send_image" /\ inflight'.pc # "send_image")
          => inflight.file \in deleters']_vars

\* C9 (as claimed): a reportStatus whose image failed to decode or to be
\* written, and whose handler therefore sent the annotated text, is
\* answered with success when the handler finishes.
C9_DecodeFailureNeverFailsReport ==
    [][(/\ inflight.pc = "send_fallback"
        /\ inflight.cause \in {"decode", "write"}
        /\ inflight'.pc = "idle")
          => (reply'.op = "reportStatus" /\ reply'.status = "200")]_vars

\* C10 (as claimed): when bind or unbind reports success, the file holds
\* exactly the in-memory bindings.
C10_SuccessMeansPersisted ==
    (reply.op \in {"bind", "unbind"} /\ reply.status = "ok")
        => (disk.kind = "ok" /\ disk.data = bindings)

\* C11: requests for a device without binding are not errors.  A getTask
\* step for a non-empty device id that is no key of device_to_sender answers
\* 200 with no task, and a reportStatus step for such a device with a
\* non-empty task id answers 200 at once and starts no send_message.
C11_UnboundIsNotAnError ==
    [][UNCHANGED <<bindings, device_to_sender, uuid_next>> =>
       /\ \A req \in GetTaskRequests, now \in 1..MaxTime :
            (/\ req.parsable /\ req.device # ""
             /\ req.device \notin DOMAIN device_to_sender
             /\ _handle_get_task(req, now))
            => (reply'.op = "getTask" /\ reply'.status = "200" /\ reply'.tasks = <<>>)
       /\ \A req \in ReportRequests, wr \in SaveOutcomes :
            (/\ req.parsable /\ req.device # "" /\ req.task # ""
             /\ req.device \notin DOMAIN device_to_sender
             /\ _handle_report_status(req, wr))
            => (/\ reply'.op = "reportStatus" /\ reply'.status = "200"
                /\ UNCHANGED inflight)]_vars

\* device D1, never unbound and without binding, has polled, and its
\* report has just been answered 200
C11_Witness ==
    /\ "D1" \notin DOMAIN device_to_sender
    /\ hist_unbinder["D1"] = ""
    /\ "D1" \in DOMAIN device_last_seen
    /\ "D1" \in DOMAIN executed_tasks
    /\ reply.op = "reportStatus" /\ reply.dev = "D1" /\ reply.status = "200"

\* C12: a malformed request mutates nothing.  A getTask step whose body
\* does not parse or names no device, and a reportStatus step whose body
\* does not parse or names no device or no task, answer 400 and leave the
\* bindings, the inverse index, the queues, the executed sets and the
\* last-contact timestamps as they were.
C12_MalformedMutatesNothing ==
    [][UNCHANGED <<uuid_next, disk>> =>
       /\ \A req \in GetTaskRequests, now \in 1..MaxTime :
            (/\ ~req.parsable \/ req.device = ""
             /\ _handle_get_task(req, now))
            => (/\ reply'.op = "getTask" /\ reply'.status = "400"
                /\ UNCHANGED <<bindings, device_to_sender, task_queues,
                               executed_tasks, device_last_seen>>)
       /\ \A req \in ReportRequests, wr \in SaveOutcomes :
            (/\ ~req.parsable \/ req.device = "" \/ req.task = ""
             /\ _handle_report_status(req, wr))
            => (/\ reply'.op = "reportStatus" /\ reply'.status = "400"
                /\ UNCHANGED <<bindings, device_to_sender, task_queues,
                               executed_tasks, device_last_seen>>)]_vars

\* a reportStatus naming device D1 has just been answered 400 while D1 is
\* bound and has a queue, an executed set and a last-contact timestamp
C12_Witness ==
    /\ reply.op = "reportStatus" /\ reply.status = "400" /\ reply.dev = "D1"
    /\ "D1" \in DOMAIN device_to_sender
    /\ Len(Get(task_queues, "D1", <<>>)) > 0
    /\ Get(executed_tasks, "D1", {}) # {}
    /\ "D1" \in DOMAIN device_last_seen

\* C13 (as claimed): per-device state is referentially consistent with the
\* registry: every device that has a task queue or an executed set has a
\* binding.
C13_UnboundHasNoState ==
    \A d \in (DOMAIN task_queues) \cup (DOMAIN executed_tasks) :
        d \in DOMAIN device_to_sender

\* C14 (as claimed): with the policy on, a step that puts a StopTask with a
\* fresh id at the head of a device's queue also appends one CaptureImage
\* task at the tail, so that the queue grows by two.
C14_HeadEnqueueInjectsCapture ==
    [][\A d \in Devices :
         LET q  == Get(task_queues, d, <<>>)
             q2 == Get(task_queues', d, <<>>)
         IN (/\ auto_screenshot
             /\ uuid_next' # uuid_next
             /\ q2 # <<>>
             /\ q2[1].id = IdTable[uuid_next]
             /\ q2[1].type = "StopTask")
            => (/\ Len(q2) = Len(q) + 2
                /\ q2[Len(q2)].type = "CaptureImage"
                /\ q2[Len(q2)].id # q2[1].id)]_vars

\* C15: acknowledgment is idempotent.  Every well-formed reportStatus step
\* does the bookkeeping of Acknowledge for its device and task id; and in
\* every reachable state, for every device and task id, the first
\* acknowledgment puts the id into the executed set and leaves the queue
\* with exactly the entries of other ids, and a second acknowledgment of
\* the same pair right after it changes neither the queues nor the
\* executed sets.
C15_AckIdempotent ==
    /\ [](\A d \in Devices :
           \A k \in {IdTable[i] : i \in 1..(uuid_next - 1)} \cup {ForeignId} :
             LET once  == Acknowledge(task_queues, executed_tasks, d, k)
                 twice == Acknowledge(once.queues, once.executed, d, k)
             IN /\ k \in once.executed[d]
                /\ k \notin Ids(Get(once.queues, d, <<>>))
                /\ Ids(Get(once.queues, d, <<>>)) = Ids(Get(task_queues, d, <<>>)) \ {k}
                /\ twice = once)
    /\ [][UNCHANGED <<bindings, uuid_next, device_last_seen>> =>
          \A req \in ReportRequests, wr \in SaveOutcomes :
            (/\ req.parsable /\ req.device # "" /\ req.task # ""
             /\ _handle_report_status(req, wr))
            => (/\ req.task \in executed_tasks'[req.device]
                /\ req.task \notin Ids(Get(task_queues', req.device, <<>>))
                /\ <<task_queues', executed_tasks'>> =
                     <<Acknowledge(task_queues, executed_tasks, req.device, req.task).queues,
                       Acknowledge(task_queues, executed_tasks, req.device, req.task).executed>>)]_vars

\* a report has just acknowledged the second entry of a two-task queue:
\* the head entry is still queued and the handler is sending the result
C15_Witness ==
    /\ inflight.pc = "send_text" /\ inflight.dev = "D1"
    /\ Get(executed_tasks, "D1", {}) = {IdTable[1]}
    /\ Ids(Get(task_queues, "D1", <<>>)) = {IdTable[2]}
    /\ task_queues["D1"][1].type = "StopTask"

\* C16: getTask is read-only apart from presence.  A well-formed getTask
\* step for device D, bound or not, leaves the bindings, the inverse index,
\* every queue, every executed set and the last-contact timestamp of every
\* other device as they were; and a step that changes any last-contact
\* timestamp is a getTask step (no report, bind, unbind or enqueue writes
\* one).
C16_GetTaskWritesPresenceOnly ==
    [][/\ \A req \in GetTaskRequests, now \in 1..MaxTime :
            (/\ req.parsable /\ req.device # ""
             /\ _handle_get_task(req, now))
            => (/\ UNCHANGED <<bindings, device_to_sender, task_queues,
                               executed_tasks>>
                /\ DOMAIN device_last_seen' = DOMAIN device_last_seen \cup {req.device}
                /\ \A d \in DOMAIN device_last_seen :
                      d # req.device => device_last_seen'[d] = device_last_seen[d])
       /\ device_last_seen' # device_last_seen => reply'.op = "getTask"]_vars

\* getTask has just answered bound device D1, which has a queue and an
\* executed set, after device D2 had polled as well
C16_Witness ==
    /\ reply.op = "getTask" /\ reply.dev = "D1" /\ reply.status = "200"
    /\ DOMAIN device_last_seen = {"D1", "D2"}
    /\ "D1" \in DOMAIN device_to_sender
    /\ Len(Get(task_queues, "D1", <<>>)) > 0
    /\ Get(executed_tasks, "D1", {}) # {}

\* C17: no update is lost when the handlers interleave at their awaits.
\* The queue of a bound device always holds exactly the ids enqueued for it
\* that no report has carried, whatever was enqueued or reported while a
\* reportStatus handler was suspended in its send; the handler that resumes
\* from its send writes no binding, queue or executed set; and a bind that
\* succeeds for a device found it unclaimed and leaves it with one owner,
\* so of two binds of one device at most one succeeds.
C17_NoLostUpdates ==
    /\ [](\A d \in DOMAIN device_to_sender :
            Ids(Get(task_queues, d, <<>>)) = hist_pending[d])
    /\ [][(inflight.pc # "idle" /\ inflight' # inflight)
            => UNCHANGED <<bindings, device_to_sender, task_queues,
                           executed_tasks>>]_vars
    /\ [][(reply'.op = "bind" /\ reply'.status = "ok")
            => (/\ reply'.dev \notin DOMAIN device_to_sender
                /\ {s \in DOMAIN bindings' : bindings'[s].device_id = reply'.dev}
                      = {reply'.who})]_vars

\* while the handler of a report of the first task is suspended in its
\* send, the device's queue holds the task enqueued second
C17_Witness ==
    /\ inflight.pc = "send_text" /\ inflight.dev = "D1"
    /\ IdTable[1] \in Get(executed_tasks, "D1", {})
    /\ uuid_next > 2
    /\ IdTable[2] \in Ids(Get(task_queues, "D1", <<>>))

\* C18 (as claimed): when the process dies anywhere in the write of the
\* binding record that a bind or an unbind makes, the process that starts
\* next loads either the whole binding set from before the operation or the
\* whole set after it, has an inverse index rebuilt from what it loaded,
\* and has no queue, executed set or last-contact timestamp.
C18_CrashConsistentBindings ==
    [][/\ \A s \in Operators, d \in Devices, point \in CrashPoints :
            CrashInBind(s, d, point)
            => (/\ bindings' \in {bindings, Put(bindings, s, NewBinding(s, d))}
                /\ device_to_sender' = RebuildIndex(bindings')
                /\ task_queues' = EmptyDict /\ executed_tasks' = EmptyDict
                /\ device_last_seen' = EmptyDict)
       /\ \A s \in Operators, point \in CrashPoints :
            CrashInUnbind(s, point)
            => (/\ bindings' \in {bindings, Del(bindings, s)}
                /\ device_to_sender' = RebuildIndex(bindings')
                /\ task_queues' = EmptyDict /\ executed_tasks' = EmptyDict
                /\ device_last_seen' = EmptyDict)]_vars

\* C19 (as claimed): a reportStatus step starts a notification only when
\* the reported task id was in the queue of the device as the report
\* arrived.
C19_NotifiesOnlyPendingTasks ==
    [][(inflight.pc = "idle" /\ inflight'.pc # "idle") =>
         \A req \in ReportRequests, wr \in SaveOutcomes :
            _handle_report_status(req, wr)
            => req.task \in Ids(Get(task_queues, req.device, <<>>))]_vars

\* C19 (amended): every reportStatus step with a non-empty device and task
\* id for a device that is bound starts a notification to the operator who
\* holds the device now, whether or not the id was in the device's queue:
\* a repeated report, a report of an id never enqueued and a late report of
\* a task of an earlier binding each notify the current operator.
C19_NotifiesOnEveryBoundReport ==
    [][UNCHANGED <<bindings, uuid_next, device_last_seen>> =>
         \A req \in ReportRequests, wr \in SaveOutcomes :
            (/\ req.parsable /\ req.device # "" /\ req.task # ""
             /\ req.device \in DOMAIN device_to_sender
             /\ _handle_report_status(req, wr))
            => (/\ inflight.pc = "idle" /\ inflight'.pc # "idle"
                /\ inflight'.dev = req.device
                /\ inflight'.umo = bindings[device_to_sender[req.device]].umo)]_vars

\* operator U2 is being notified of a report of the first task id although
\* device D1 has had no queue since U1 unbound it
C19_Witness ==
    /\ inflight.pc = "send_text" /\ inflight.dev = "D1"
    /\ inflight.umo = UmoOf("U2")
    /\ hist_unbinder["D1"] = "U1"
    /\ "D1" \notin DOMAIN task_queues
    /\ Get(executed_tasks, "D1", {}) = {IdTable[1]}

\* C20: with task ids that are never handed out twice nor reported before
\* they are handed out, no task of a device's queue has its id in the
\* executed set of that device; so getTask answers a bound device with its
\* whole queue in queue order, and the pending count of the status command
\* is the number of tasks getTask would answer.
C20_QueueDisjointFromExecuted ==
    /\ \A d \in DOMAIN task_queues :
          Ids(task_queues[d]) \cap Get(executed_tasks, d, {}) = {}
    /\ \A d \in DOMAIN device_to_sender :
          GetTaskResult(d) = Get(task_queues, d, <<>>)
    /\ (reply.op = "getTask" /\ reply.dev \in DOMAIN device_to_sender)
          => reply.tasks = Get(task_queues, reply.dev, <<>>)
    /\ (reply.op = "status" /\ reply.status # "not_bound")
          => reply.pending = Len(GetTaskResult(reply.dev))

\* the status command has just counted two pending tasks for a device
\* whose executed set holds an id reported earlier
C20_Witness ==
    /\ reply.op = "status" /\ reply.dev = "D1"
    /\ reply.pending = 2
    /\ Get(executed_tasks, "D1", {}) # {}
    /\ "D1" \in DOMAIN device_last_seen

====
